---------------------------- MODULE Spec2Model ----------------------------
(***************************************************************************)
(* State-machine model of the API controllers of internal/api/server.go:   *)
(* Server.CreateIdentity, Server.CreateClaim and Server.RevokeClaim.       *)
(*                                                                         *)
(* Every controller run is a handler p.  A handler's position is pc[p],    *)
(* its Go locals are frame[p], the collaborator calls it has made are      *)
(* calls[p], the log entries it has written are logged[p] and the pair it  *)
(* returns (response object, error) is response[p].  The collaborators     *)
(* behind the ports (schema service, claims service, identity service,     *)
(* pkg/rand, encoding/json, pgtype) are outside server.go: each call       *)
(* returns either an error or a value, chosen nondeterministically.        *)
(***************************************************************************)
EXTENDS Integers, Sequences, FiniteSets, TLC

VARIABLES
    server,     \* the Server struct: cfg and the three services
    store,      \* the Claim Store's records (behind claimService.Save / Revoke)
    request,    \* request[p]: the operation and request object handler p serves
    pc,         \* pc[p]: the statement handler p is at
    frame,      \* frame[p]: the Go locals of handler p
    calls,      \* calls[p]: the collaborator calls made by handler p, in order
    logged,     \* logged[p]: the log entries written by handler p, in order
    response    \* response[p]: the (response, error) pair handler p returned

vars == <<server, store, request, pc, frame, calls, logged, response>>

----------------------------------------------------------------------------
(* Bounds of the model *)

\* Width in bits of the revocation nonce (uint64 in the code), scaled down so
\* that 2^NonceBits stays inside TLC's integers.
NonceBits == 8

\* The Claim Store accepts at most this many records in the model.
MaxSaved == 2

\* Handlers.  Spec runs the controllers one request at a time on "p1".
Procs == {"p1", "p2"}

----------------------------------------------------------------------------
(* Go values *)

\* A nil pointer / nil interface value.
Nil == [type |-> "nil"]

\* The nil error.  An error is the chain of messages errors.Unwrap walks.
NoError == <<>>

NewError(msg) == <<msg>>

\* fmt.Errorf("msg: %w", err)
WrapError(msg, err) == <<msg \o ": " \o err[1]>> \o err

\* err.Error()
ErrorString(err) == err[1]

\* errors.Is(err, target)
ErrorsIs(err, target) ==
    \E i \in 1..Len(err) : SubSeq(err, i, Len(err)) = target

\* repositories.ErrClaimDoesNotExist
ErrClaimDoesNotExist == NewError("claim does not exist")

\* uint64(n): conversion of an integer to the unsigned nonce type
Uint64(n) == n % (2 ^ NonceBits)


----------------------------------------------------------------------------
(* Request inputs *)

\* request.Identifier, as its ":"-separated segments: "" is <<>>.
Identifiers ==
    { <<>>, <<"not-a-did">>, <<"did", "iden3", "A">>, <<"did", "iden3", "B">> }

\* request.Body.CredentialSchema
SchemaURLs == { "https://x/schema.json" }

\* request.Body.Type
ClaimTypes == { "Age", "KYC" }

\* request.Body.MerklizedRootPosition
RootPositions == { "", "value" }

\* request.Body.Version
Versions == { 0 }

\* request.Body.SubjectPosition
SubjectPositions == { "index" }

\* request.Nonce of RevokeClaim, a signed integer
RevokeNonces == { -1, 1, 2 }

\* The values rand.Int64 can return in the model: a small one and the largest.
DrawnNonces == { 1, (2 ^ NonceBits) - 1 }

\* The revocation nonces an issuer's auth claim can carry.
AuthNonces == { 0 }

\* What schemaService.LoadSchema can resolve: schema.Metadata.Uris is a map
\* from keys to values of any type.
StringValue(s) == [kind |-> "string", val |-> s]

NumberValue(n) == [kind |-> "number", val |-> n]

Schemas ==
    { [Metadata |-> [Uris |-> [jsonLdContext |-> StringValue("https://x/ctx"),
                               jsonSchema    |-> StringValue("https://x/schema.json")]]],
      [Metadata |-> [Uris |-> [jsonLdContext |-> NumberValue(7),
                               jsonSchema    |-> StringValue("https://x/schema.json")]]],
      [Metadata |-> [Uris |-> [jsonSchema    |-> StringValue("https://x/schema.json")]]] }

\* One error value per collaborator.
CollaboratorError(fn) == NewError(fn \o " failed")

\* context.Canceled
ContextCanceled == NewError("context canceled")

\* The errors claimService.Revoke can return.
RevokeErrors ==
    { ErrClaimDoesNotExist,
      WrapError("revoke", ErrClaimDoesNotExist),
      CollaboratorError("Revoke") }

----------------------------------------------------------------------------
(* Library functions the controllers apply *)

\* core.ParseDID(s): the parsed DID and the error.
CoreParseDID(s) ==
    IF Len(s) = 3 /\ s[1] = "did" /\ s[2] = "iden3"
    THEN [did |-> [method |-> s[2], id |-> s[3]], err |-> NoError]
    ELSE [did |-> Nil, err |-> NewError("invalid did format")]

\* did.String()
DIDString(did) == <<"did", did.method, did.id>>

\* v, ok := m[key].(string)
StringAt(m, key) ==
    IF key \in DOMAIN m /\ m[key].kind = "string"
    THEN [val |-> m[key].val, ok |-> TRUE]
    ELSE [val |-> "", ok |-> FALSE]

\* CredentialType with the format "%s%s": the separator is left out.
CredentialType_NoSeparator(jsonLdContext, claimType) == jsonLdContext \o claimType

\* fmt.Sprintf("%s#%s", jsonLdContext, claimType)
CredentialType(jsonLdContext, claimType) == jsonLdContext \o "#" \o claimType

\* fmt.Sprintf("%s:%d", ServerUrl, ServerPort)
HostURL(cfg) == cfg.ServerUrl \o ":" \o ToString(cfg.ServerPort)

\* common.DefineMerklizedRootPosition(metadata, position): the request's value
\* wins when given, else the schema default.
DefineMerklizedRootPosition(metadata, position) ==
    IF position # "" THEN position ELSE "index"

\* ports.NewClaimRequest(...)
NewClaimRequest(schema, did, body) ==
    [Schema |-> schema, DID |-> did, CredentialSchema |-> body.CredentialSchema,
     Type |-> body.Type, Version |-> body.Version,
     SubjectPos |-> body.SubjectPosition,
     MerklizedRootPosition |-> body.MerklizedRootPosition]

----------------------------------------------------------------------------
(* Response objects *)

CreateClaim201JSONResponse(id) ==
    [type |-> "CreateClaim201JSONResponse", Id |-> id]

CreateClaim400JSONResponse(msg) ==
    [type |-> "CreateClaim400JSONResponse", Message |-> msg]

CreateClaim500JSONResponse(msg) ==
    [type |-> "CreateClaim500JSONResponse", Message |-> msg]

RevokeClaim202JSONResponse(status) ==
    [type |-> "RevokeClaim202JSONResponse", Status |-> status]

RevokeClaim404JSONResponse(msg) ==
    [type |-> "RevokeClaim404JSONResponse", Message |-> msg]

RevokeClaim500JSONResponse(msg) ==
    [type |-> "RevokeClaim500JSONResponse", Message |-> msg]

CreateIdentity201JSONResponse(identity) ==
    [type |-> "CreateIdentity201JSONResponse", Identifier |-> identity.Identifier,
     Immutable |-> identity.Immutable, Relay |-> identity.Relay,
     State |-> identity.State]

\* The HTTP status a response object is bound to; 0 for nil.
StatusCode(resp) ==
    CASE resp.type = "CreateClaim201JSONResponse"    -> 201
      [] resp.type = "CreateClaim400JSONResponse"    -> 400
      [] resp.type = "CreateClaim500JSONResponse"    -> 500
      [] resp.type = "RevokeClaim202JSONResponse"    -> 202
      [] resp.type = "RevokeClaim404JSONResponse"    -> 404
      [] resp.type = "RevokeClaim500JSONResponse"    -> 500
      [] resp.type = "CreateIdentity201JSONResponse" -> 201
      [] OTHER -> 0

----------------------------------------------------------------------------
(* State *)

\* The ctx the caller hands to a handler: not cancelled.  during names the
\* statement that was running when the caller cancelled.
LiveContext == [err |-> NoError, during |-> "none"]

\* The handler's parameter ctx and the zero values of its locals.
ZeroFrame ==
    [did |-> Nil, schema |-> Nil, claimReq |-> Nil, nonce |-> 0, vc |-> Nil,
     jsonLdContext |-> "", credentialType |-> "", mtRootPostion |-> "",
     coreClaim |-> Nil, claim |-> Nil, authClaim |-> Nil, proof |-> Nil,
     issuerDIDString |-> <<>>, jsonSignatureProof |-> Nil, claimResp |-> Nil,
     identity |-> Nil, ctx |-> LiveContext]

\* NewServer(cfg, identityService, claimsService, schemaService)
NewServer(cfg, identityService, claimsService, schemaService) ==
    [cfg |-> cfg, identityService |-> identityService,
     claimService |-> claimsService, schemaService |-> schemaService]

Init ==
    /\ server = NewServer([ServerUrl |-> "http://localhost", ServerPort |-> 3001],
                          "identityService", "claimsService", "schemaService")
    /\ store = {}
    /\ request = [p \in Procs |-> Nil]
    /\ pc = [p \in Procs |-> "idle"]
    /\ frame = [p \in Procs |-> ZeroFrame]
    /\ calls = [p \in Procs |-> <<>>]
    /\ logged = [p \in Procs |-> <<>>]
    /\ response = [p \in Procs |-> [resp |-> Nil, err |-> NoError]]

\* A handler can take a request when it serves none.
Free(p) == pc[p] \in {"idle", "done"}

\* The request object reaches the controller: fresh locals, nothing called,
\* nothing logged, nothing returned.
Begin(p, req, first) ==
    /\ Free(p)
    /\ request' = [request EXCEPT ![p] = req]
    /\ pc' = [pc EXCEPT ![p] = first]
    /\ frame' = [frame EXCEPT ![p] = ZeroFrame]
    /\ calls' = [calls EXCEPT ![p] = <<>>]
    /\ logged' = [logged EXCEPT ![p] = <<>>]
    /\ response' = [response EXCEPT ![p] = [resp |-> Nil, err |-> NoError]]
    /\ UNCHANGED <<server, store>>

\* return resp, err
Return(p, resp, err) ==
    /\ response' = [response EXCEPT ![p] = [resp |-> resp, err |-> err]]
    /\ pc' = [pc EXCEPT ![p] = "done"]

\* The handler moves on to the statement at label next.
Goto(p, next) ==
    /\ pc' = [pc EXCEPT ![p] = next]
    /\ UNCHANGED response

\* A call of collaborator fn with args that returned err (NoError: success).
Call(p, fn, args, err) ==
    calls' = [calls EXCEPT ![p] = Append(@, [fn |-> fn, args |-> args, err |-> err])]

\* log.Error(ctx, msg, err) / log.Warn(ctx, msg)
Log(p, level, msg) ==
    logged' = [logged EXCEPT ![p] = Append(@, [level |-> level, msg |-> msg])]

\* The errors a call of collaborator fn that is handed ctx can return: its own
\* failure or, once the caller has cancelled, ctx.Err().  The call can also
\* complete without an error after the cancellation.
CallErrors(p, fn) ==
    {CollaboratorError(fn)} \cup
        (IF frame[p].ctx.err # NoError THEN {frame[p].ctx.err} ELSE {})

\* The caller cancels the request while handler p is at a statement of
\* CreateClaim.  The controller never reads ctx itself: it only passes it on.
Cancel(p) ==
    /\ pc[p] \notin {"idle", "done"}
    /\ request[p].op = "CreateClaim"
    /\ frame[p].ctx.err = NoError
    /\ frame' = [frame EXCEPT ![p].ctx = [err |-> ContextCanceled, during |-> pc[p]]]
    /\ UNCHANGED <<server, store, request, pc, calls, logged, response>>

----------------------------------------------------------------------------
(* Values the collaborators and libraries build *)

\* A *string pointing at s.
StringPtr(s) == [type |-> "ptr", val |-> s]

\* A pgtype JSONB field: undefined until Set succeeds.
UndefinedJSONB == [Status |-> "Undefined"]

PresentJSONB(v) == [Status |-> "Present", Bytes |-> v]

\* json.Marshal(v), when it succeeds
JSONBytes(v) == [json |-> v]

\* claimService.GetRevocationSource(issuerDID, nonce): the descriptor
RevocationSource(issuerDID, nonce) ==
    [ID |-> issuerDID, Type |-> "SparseMerkleTreeProof", RevocationNonce |-> nonce]

\* The credential claimService.CreateVC builds: holder claims, status descriptor
VerifiableCredential(claimReq, nonce) ==
    [Issuer |-> DIDString(claimReq.DID), Type |-> claimReq.Type,
     CredentialSchema |-> claimReq.CredentialSchema,
     CredentialStatus |-> RevocationSource(DIDString(claimReq.DID), nonce)]

\* The core claim schemaService.Process encodes
CoreClaim(credentialType, opts) ==
    [SchemaType |-> credentialType, RevNonce |-> opts.RevNonce,
     MerklizedRootPosition |-> opts.MerklizedRootPosition,
     Version |-> opts.Version, SubjectPosition |-> opts.SubjectPosition,
     Updatable |-> opts.Updatable]

\* The claim domain.FromClaimer assembles
DomainClaim(coreClaim, schemaURL, credentialType) ==
    [ID |-> 0, Identifier |-> Nil, Issuer |-> <<>>, SchemaURL |-> schemaURL,
     SchemaType |-> credentialType, RevNonce |-> coreClaim.RevNonce,
     CoreClaim |-> coreClaim, SignatureProof |-> UndefinedJSONB,
     Data |-> UndefinedJSONB, CredentialStatus |-> UndefinedJSONB]

\* The proof identityService.SignClaimEntry returns
SignatureProof(authClaim, coreClaim) ==
    [Type |-> "BJJSignature2021",
     IssuerData |-> [AuthClaim |-> authClaim, CredentialStatus |-> Nil],
     CoreClaim |-> coreClaim, Signature |-> "signature"]

\* claimResp.ID.String()
IDString(id) == "claim-" \o ToString(id)

\* The Claim Store's record of a saved claim
StoreRecord(claim) ==
    [ID |-> claim.ID, Issuer |-> claim.Issuer, Identifier |-> claim.Identifier,
     RevNonce |-> claim.RevNonce, Revoked |-> FALSE]

\* The Claim Store holds a claim of this issuer with this revocation nonce.
Stored(issuer, nonce) ==
    \E r \in store : r.Issuer = issuer /\ r.RevNonce = nonce

----------------------------------------------------------------------------
(* Server.CreateClaim *)

CreateClaim_Begin(p) ==
    \E id \in Identifiers, url \in SchemaURLs, t \in ClaimTypes,
       v \in Versions, sp \in SubjectPositions, mp \in RootPositions :
        Begin(p, [op |-> "CreateClaim", Identifier |-> id,
                  Body |-> [CredentialSchema |-> url, Type |-> t, Version |-> v,
                            SubjectPosition |-> sp,
                            MerklizedRootPosition |-> mp]],
              "CheckIdentifier")

\* CreateClaim_CheckIdentifier with the test for the empty identifier left out.
CreateClaim_CheckIdentifier_NoCheck(p) ==
    /\ pc[p] = "CheckIdentifier"
    /\ Goto(p, "ParseDID")
    /\ UNCHANGED <<server, store, request, frame, calls, logged>>

\* if request.Identifier == "" { return 400 }
CreateClaim_CheckIdentifier(p) ==
    /\ pc[p] = "CheckIdentifier"
    /\ IF request[p].Identifier = <<>>
       THEN Return(p, CreateClaim400JSONResponse("Invalid request identifier"), NoError)
       ELSE Goto(p, "ParseDID")
    /\ UNCHANGED <<server, store, request, frame, calls, logged>>

\* did, err := core.ParseDID(request.Identifier)
CreateClaim_ParseDID(p) ==
    /\ pc[p] = "ParseDID"
    /\ LET r == CoreParseDID(request[p].Identifier) IN
       IF r.err # NoError
       THEN /\ Return(p, CreateClaim400JSONResponse(ErrorString(r.err)), NoError)
            /\ UNCHANGED frame
       ELSE /\ frame' = [frame EXCEPT ![p].did = r.did]
            /\ Goto(p, "LoadSchema")
    /\ UNCHANGED <<server, store, request, calls, logged>>

\* CreateClaim_LoadSchema with one retry: after a first failure the schema is
\* loaded again instead of returning the 400.
CreateClaim_LoadSchema_Retry(p) ==
    /\ pc[p] = "LoadSchema"
    /\ LET args == [url |-> request[p].Body.CredentialSchema] IN
       \/ \E err \in CallErrors(p, "LoadSchema") :
            /\ Call(p, "LoadSchema", args, err)
            /\ IF calls[p] = <<>>
               THEN Goto(p, "LoadSchema")
               ELSE Return(p, CreateClaim400JSONResponse(ErrorString(err)), NoError)
            /\ UNCHANGED frame
       \/ \E schema \in Schemas :
            /\ Call(p, "LoadSchema", args, NoError)
            /\ frame' = [frame EXCEPT
                   ![p].schema = schema,
                   ![p].claimReq = NewClaimRequest(schema, frame[p].did, request[p].Body)]
            /\ Goto(p, "RandInt64")
    /\ UNCHANGED <<server, store, request, logged>>

\* schema, err := s.schemaService.LoadSchema(ctx, request.Body.CredentialSchema)
\* claimReq := ports.NewClaimRequest(schema, did, ...)
CreateClaim_LoadSchema(p) ==
    /\ pc[p] = "LoadSchema"
    /\ LET args == [url |-> request[p].Body.CredentialSchema] IN
       \/ \E err \in CallErrors(p, "LoadSchema") :
            /\ Call(p, "LoadSchema", args, err)
            /\ Return(p, CreateClaim400JSONResponse(ErrorString(err)), NoError)
            /\ UNCHANGED frame
       \/ \E schema \in Schemas :
            /\ Call(p, "LoadSchema", args, NoError)
            /\ frame' = [frame EXCEPT
                   ![p].schema = schema,
                   ![p].claimReq = NewClaimRequest(schema, frame[p].did, request[p].Body)]
            /\ Goto(p, "RandInt64")
    /\ UNCHANGED <<server, store, request, logged>>

\* CreateClaim_RandInt64 with the return after the failure left out: the
\* failure is logged and the run goes on with the zero nonce.
CreateClaim_RandInt64_NoReturn(p) ==
    /\ pc[p] = "RandInt64"
    /\ \/ LET err == CollaboratorError("rand.Int64") IN
            /\ Call(p, "rand.Int64", Nil, err)
            /\ Log(p, "error", "Can not create a nonce")
            /\ Goto(p, "CreateVC")
            /\ UNCHANGED frame
       \/ \E n \in DrawnNonces :
            /\ Call(p, "rand.Int64", Nil, NoError)
            /\ frame' = [frame EXCEPT ![p].nonce = n]
            /\ Goto(p, "CreateVC")
            /\ UNCHANGED logged
    /\ UNCHANGED <<server, store, request>>

\* CreateClaim_RandInt64 with a nonce kept in process-wide state: a handler
\* takes the nonce another running handler holds instead of drawing its own.
CreateClaim_RandInt64_Shared(p) ==
    /\ pc[p] = "RandInt64"
    /\ IF \E q \in Procs \ {p} : frame[q].nonce # 0
       THEN LET q == CHOOSE q \in Procs \ {p} : frame[q].nonce # 0 IN
            /\ frame' = [frame EXCEPT ![p].nonce = frame[q].nonce]
            /\ Goto(p, "CreateVC")
            /\ UNCHANGED <<calls, logged>>
       ELSE
       \/ LET err == CollaboratorError("rand.Int64") IN
            /\ Call(p, "rand.Int64", Nil, err)
            /\ Log(p, "error", "Can not create a nonce")
            /\ Return(p, CreateClaim500JSONResponse(ErrorString(err)), NoError)
            /\ UNCHANGED frame
       \/ \E n \in DrawnNonces :
            /\ Call(p, "rand.Int64", Nil, NoError)
            /\ frame' = [frame EXCEPT ![p].nonce = n]
            /\ Goto(p, "CreateVC")
            /\ UNCHANGED logged
    /\ UNCHANGED <<server, store, request>>

\* nonce, err := rand.Int64()
CreateClaim_RandInt64(p) ==
    /\ pc[p] = "RandInt64"
    /\ \/ LET err == CollaboratorError("rand.Int64") IN
            /\ Call(p, "rand.Int64", Nil, err)
            /\ Log(p, "error", "Can not create a nonce")
            /\ Return(p, CreateClaim500JSONResponse(ErrorString(err)), NoError)
            /\ UNCHANGED frame
       \/ \E n \in DrawnNonces :
            /\ Call(p, "rand.Int64", Nil, NoError)
            /\ frame' = [frame EXCEPT ![p].nonce = n]
            /\ Goto(p, "CreateVC")
            /\ UNCHANGED logged
    /\ UNCHANGED <<server, store, request>>

\* vc, err := s.claimService.CreateVC(ctx, claimReq, nonce)
CreateClaim_CreateVC(p) ==
    /\ pc[p] = "CreateVC"
    /\ LET args == [claimReq |-> frame[p].claimReq, nonce |-> frame[p].nonce] IN
       \/ \E err \in CallErrors(p, "CreateVC") :
            /\ Call(p, "CreateVC", args, err)
            /\ Log(p, "error", "Can not create a claim")
            /\ Return(p, CreateClaim500JSONResponse(ErrorString(err)), NoError)
            /\ UNCHANGED frame
       \/ /\ Call(p, "CreateVC", args, NoError)
          /\ frame' = [frame EXCEPT
                 ![p].vc = VerifiableCredential(args.claimReq, args.nonce)]
          /\ Goto(p, "JsonLdContext")
          /\ UNCHANGED logged
    /\ UNCHANGED <<server, store, request>>

\* CreateClaim_JsonLdContext with ok ignored: a missing context is taken as the
\* empty string and the run goes on.
CreateClaim_JsonLdContext_Unchecked(p) ==
    /\ pc[p] = "JsonLdContext"
    /\ LET r == StringAt(frame[p].schema.Metadata.Uris, "jsonLdContext") IN
       /\ frame' = [frame EXCEPT
              ![p].jsonLdContext = r.val,
              ![p].credentialType = CredentialType(r.val, request[p].Body.Type),
              ![p].mtRootPostion =
                  DefineMerklizedRootPosition(frame[p].schema.Metadata,
                      frame[p].claimReq.MerklizedRootPosition)]
       /\ Goto(p, "Process")
    /\ UNCHANGED <<server, store, request, calls, logged>>

\* jsonLdContext, ok := schema.Metadata.Uris["jsonLdContext"].(string)
\* credentialType := fmt.Sprintf("%s#%s", jsonLdContext, request.Body.Type)
\* mtRootPostion := common.DefineMerklizedRootPosition(...)
CreateClaim_JsonLdContext(p) ==
    /\ pc[p] = "JsonLdContext"
    /\ LET r == StringAt(frame[p].schema.Metadata.Uris, "jsonLdContext") IN
       IF ~r.ok
       THEN /\ Log(p, "warn", "invalid jsonLdContext")
            /\ Return(p, CreateClaim400JSONResponse("invalid jsonLdContext"), NoError)
            /\ UNCHANGED frame
       ELSE /\ frame' = [frame EXCEPT
                   ![p].jsonLdContext = r.val,
                   ![p].credentialType = CredentialType(r.val, request[p].Body.Type),
                   ![p].mtRootPostion =
                       DefineMerklizedRootPosition(frame[p].schema.Metadata,
                           frame[p].claimReq.MerklizedRootPosition)]
            /\ Goto(p, "Process")
            /\ UNCHANGED logged
    /\ UNCHANGED <<server, store, request, calls>>

\* CreateClaim_Process with the encoder's failure answered by the 500 response.
CreateClaim_Process_ServerFault(p) ==
    /\ pc[p] = "Process"
    /\ LET opts == [RevNonce |-> frame[p].nonce,
                    MerklizedRootPosition |-> frame[p].mtRootPostion,
                    Version |-> frame[p].claimReq.Version,
                    SubjectPosition |-> frame[p].claimReq.SubjectPos,
                    Updatable |-> FALSE]
           args == [url |-> frame[p].claimReq.CredentialSchema,
                    credentialType |-> frame[p].credentialType,
                    vc |-> frame[p].vc, opts |-> opts]
       IN
       \/ LET err == CollaboratorError("Process") IN
            /\ Call(p, "Process", args, err)
            /\ Log(p, "error", "Can not process the schema")
            /\ Return(p, CreateClaim500JSONResponse(ErrorString(err)), NoError)
            /\ UNCHANGED frame
       \/ /\ Call(p, "Process", args, NoError)
          /\ frame' = [frame EXCEPT
                 ![p].coreClaim = CoreClaim(args.credentialType, opts)]
          /\ Goto(p, "FromClaimer")
          /\ UNCHANGED logged
    /\ UNCHANGED <<server, store, request>>

\* CreateClaim_Process with a revocation nonce of its own: the encoder is
\* given the successor of the nonce the VC was built with.
CreateClaim_Process_OtherNonce(p) ==
    /\ pc[p] = "Process"
    /\ LET opts == [RevNonce |-> Uint64(frame[p].nonce + 1),
                    MerklizedRootPosition |-> frame[p].mtRootPostion,
                    Version |-> frame[p].claimReq.Version,
                    SubjectPosition |-> frame[p].claimReq.SubjectPos,
                    Updatable |-> FALSE]
           args == [url |-> frame[p].claimReq.CredentialSchema,
                    credentialType |-> frame[p].credentialType,
                    vc |-> frame[p].vc, opts |-> opts]
       IN
       \/ \E err \in CallErrors(p, "Process") :
            /\ Call(p, "Process", args, err)
            /\ Log(p, "error", "Can not process the schema")
            /\ Return(p, CreateClaim400JSONResponse(ErrorString(err)), NoError)
            /\ UNCHANGED frame
       \/ /\ Call(p, "Process", args, NoError)
          /\ frame' = [frame EXCEPT
                 ![p].coreClaim = CoreClaim(args.credentialType, opts)]
          /\ Goto(p, "FromClaimer")
          /\ UNCHANGED logged
    /\ UNCHANGED <<server, store, request>>

\* coreClaim, err := s.schemaService.Process(ctx, claimReq.CredentialSchema,
\*     credentialType, vc, &processor.CoreClaimOptions{...})
CreateClaim_Process(p) ==
    /\ pc[p] = "Process"
    /\ LET opts == [RevNonce |-> frame[p].nonce,
                    MerklizedRootPosition |-> frame[p].mtRootPostion,
                    Version |-> frame[p].claimReq.Version,
                    SubjectPosition |-> frame[p].claimReq.SubjectPos,
                    Updatable |-> FALSE]
           args == [url |-> frame[p].claimReq.CredentialSchema,
                    credentialType |-> frame[p].credentialType,
                    vc |-> frame[p].vc, opts |-> opts]
       IN
       \/ \E err \in CallErrors(p, "Process") :
            /\ Call(p, "Process", args, err)
            /\ Log(p, "error", "Can not process the schema")
            /\ Return(p, CreateClaim400JSONResponse(ErrorString(err)), NoError)
            /\ UNCHANGED frame
       \/ /\ Call(p, "Process", args, NoError)
          /\ frame' = [frame EXCEPT
                 ![p].coreClaim = CoreClaim(args.credentialType, opts)]
          /\ Goto(p, "FromClaimer")
          /\ UNCHANGED logged
    /\ UNCHANGED <<server, store, request>>

\* claim, err := domain.FromClaimer(coreClaim, claimReq.CredentialSchema, credentialType)
CreateClaim_FromClaimer(p) ==
    /\ pc[p] = "FromClaimer"
    /\ LET args == [coreClaim |-> frame[p].coreClaim,
                    url |-> frame[p].claimReq.CredentialSchema,
                    credentialType |-> frame[p].credentialType]
       IN
       \/ LET err == CollaboratorError("FromClaimer") IN
            /\ Call(p, "FromClaimer", args, err)
            /\ Log(p, "error", "Can not obtain the claim from claimer")
            /\ Return(p, CreateClaim500JSONResponse(ErrorString(err)), NoError)
            /\ UNCHANGED frame
       \/ /\ Call(p, "FromClaimer", args, NoError)
          /\ frame' = [frame EXCEPT
                 ![p].claim = DomainClaim(args.coreClaim, args.url, args.credentialType)]
          /\ Goto(p, "GetAuthClaim")
          /\ UNCHANGED logged
    /\ UNCHANGED <<server, store, request>>

\* authClaim, err := s.claimService.GetAuthClaim(ctx, did)
CreateClaim_GetAuthClaim(p) ==
    /\ pc[p] = "GetAuthClaim"
    /\ LET args == [did |-> frame[p].did] IN
       \/ \E err \in CallErrors(p, "GetAuthClaim") :
            /\ Call(p, "GetAuthClaim", args, err)
            /\ Log(p, "error", "Can not retrieve the auth claim")
            /\ Return(p, CreateClaim500JSONResponse(ErrorString(err)), NoError)
            /\ UNCHANGED frame
       \/ \E a \in AuthNonces :
            /\ Call(p, "GetAuthClaim", args, NoError)
            /\ frame' = [frame EXCEPT
                   ![p].authClaim = [Issuer |-> DIDString(args.did), RevNonce |-> a]]
            /\ Goto(p, "SignClaimEntry")
            /\ UNCHANGED logged
    /\ UNCHANGED <<server, store, request>>

\* CreateClaim_SignClaimEntry with the signing failure answered by the 400
\* response.
CreateClaim_SignClaimEntry_ClientFault(p) ==
    /\ pc[p] = "SignClaimEntry"
    /\ LET args == [authClaim |-> frame[p].authClaim, coreClaim |-> frame[p].coreClaim] IN
       \/ LET err == CollaboratorError("SignClaimEntry") IN
            /\ Call(p, "SignClaimEntry", args, err)
            /\ Log(p, "error", "Can not sign claim entry")
            /\ Return(p, CreateClaim400JSONResponse(ErrorString(err)), NoError)
            /\ UNCHANGED frame
       \/ /\ Call(p, "SignClaimEntry", args, NoError)
          /\ frame' = [frame EXCEPT
                 ![p].proof = SignatureProof(args.authClaim, args.coreClaim)]
          /\ Goto(p, "GetRevocationSource")
          /\ UNCHANGED logged
    /\ UNCHANGED <<server, store, request>>

\* proof, err := s.identityService.SignClaimEntry(ctx, authClaim, coreClaim)
CreateClaim_SignClaimEntry(p) ==
    /\ pc[p] = "SignClaimEntry"
    /\ LET args == [authClaim |-> frame[p].authClaim, coreClaim |-> frame[p].coreClaim] IN
       \/ \E err \in CallErrors(p, "SignClaimEntry") :
            /\ Call(p, "SignClaimEntry", args, err)
            /\ Log(p, "error", "Can not sign claim entry")
            /\ Return(p, CreateClaim500JSONResponse(ErrorString(err)), NoError)
            /\ UNCHANGED frame
       \/ /\ Call(p, "SignClaimEntry", args, NoError)
          /\ frame' = [frame EXCEPT
                 ![p].proof = SignatureProof(args.authClaim, args.coreClaim)]
          /\ Goto(p, "GetRevocationSource")
          /\ UNCHANGED logged
    /\ UNCHANGED <<server, store, request>>


\* CreateClaim_GetRevocationSource with the assignment claim.Issuer =
\* issuerDIDString left out.
CreateClaim_GetRevocationSource_NoIssuer(p) ==
    /\ pc[p] = "GetRevocationSource"
    /\ LET issuerDIDString == DIDString(frame[p].did)
           args == [issuerDID |-> issuerDIDString,
                    nonce |-> Uint64(frame[p].authClaim.RevNonce)]
       IN
       /\ Call(p, "GetRevocationSource", args, NoError)
       /\ frame' = [frame EXCEPT
              ![p].issuerDIDString = issuerDIDString,
              ![p].claim.Identifier = StringPtr(issuerDIDString),
              ![p].proof.IssuerData.CredentialStatus =
                  RevocationSource(args.issuerDID, args.nonce)]
    /\ Goto(p, "MarshalProof")
    /\ UNCHANGED <<server, store, request, logged>>

\* issuerDIDString := did.String()
\* CreateClaim_GetRevocationSource asking for the source of the new claim's
\* nonce instead of the auth claim's.
CreateClaim_GetRevocationSource_NewNonce(p) ==
    /\ pc[p] = "GetRevocationSource"
    /\ LET issuerDIDString == DIDString(frame[p].did)
           args == [issuerDID |-> issuerDIDString,
                    nonce |-> Uint64(frame[p].nonce)]
       IN
       /\ Call(p, "GetRevocationSource", args, NoError)
       /\ frame' = [frame EXCEPT
              ![p].issuerDIDString = issuerDIDString,
              ![p].claim.Identifier = StringPtr(issuerDIDString),
              ![p].claim.Issuer = issuerDIDString,
              ![p].proof.IssuerData.CredentialStatus =
                  RevocationSource(args.issuerDID, args.nonce)]
    /\ Goto(p, "MarshalProof")
    /\ UNCHANGED <<server, store, request, logged>>

\* claim.Identifier = &issuerDIDString; claim.Issuer = issuerDIDString
\* proof.IssuerData.CredentialStatus =
\*     s.claimService.GetRevocationSource(issuerDIDString, uint64(authClaim.RevNonce))
CreateClaim_GetRevocationSource(p) ==
    /\ pc[p] = "GetRevocationSource"
    /\ LET issuerDIDString == DIDString(frame[p].did)
           args == [issuerDID |-> issuerDIDString,
                    nonce |-> Uint64(frame[p].authClaim.RevNonce)]
       IN
       /\ Call(p, "GetRevocationSource", args, NoError)
       /\ frame' = [frame EXCEPT
              ![p].issuerDIDString = issuerDIDString,
              ![p].claim.Identifier = StringPtr(issuerDIDString),
              ![p].claim.Issuer = issuerDIDString,
              ![p].proof.IssuerData.CredentialStatus =
                  RevocationSource(args.issuerDID, args.nonce)]
    /\ Goto(p, "MarshalProof")
    /\ UNCHANGED <<server, store, request, logged>>

\* jsonSignatureProof, err := json.Marshal(proof)
CreateClaim_MarshalProof(p) ==
    /\ pc[p] = "MarshalProof"
    /\ LET args == [v |-> frame[p].proof] IN
       \/ LET err == CollaboratorError("json.Marshal") IN
            /\ Call(p, "json.Marshal", args, err)
            /\ Log(p, "error", "Can not encode the json signature proof")
            /\ Return(p, CreateClaim500JSONResponse(ErrorString(err)), NoError)
            /\ UNCHANGED frame
       \/ /\ Call(p, "json.Marshal", args, NoError)
          /\ frame' = [frame EXCEPT ![p].jsonSignatureProof = JSONBytes(args.v)]
          /\ Goto(p, "SetSignatureProof")
          /\ UNCHANGED logged
    /\ UNCHANGED <<server, store, request>>

\* err = claim.SignatureProof.Set(jsonSignatureProof)
CreateClaim_SetSignatureProof(p) ==
    /\ pc[p] = "SetSignatureProof"
    /\ LET args == [v |-> frame[p].jsonSignatureProof] IN
       \/ LET err == CollaboratorError("SignatureProof.Set") IN
            /\ Call(p, "SignatureProof.Set", args, err)
            /\ Log(p, "error", "Can not set the json signature proof")
            /\ Return(p, CreateClaim500JSONResponse(ErrorString(err)), NoError)
            /\ UNCHANGED frame
       \/ /\ Call(p, "SignatureProof.Set", args, NoError)
          /\ frame' = [frame EXCEPT ![p].claim.SignatureProof = PresentJSONB(args.v)]
          /\ Goto(p, "SetData")
          /\ UNCHANGED logged
    /\ UNCHANGED <<server, store, request>>

\* err = claim.Data.Set(vc)
CreateClaim_SetData(p) ==
    /\ pc[p] = "SetData"
    /\ LET args == [v |-> frame[p].vc] IN
       \/ LET err == CollaboratorError("Data.Set") IN
            /\ Call(p, "Data.Set", args, err)
            /\ Log(p, "error", "Can not set the credential")
            /\ Return(p, CreateClaim500JSONResponse(ErrorString(err)), NoError)
            /\ UNCHANGED frame
       \/ /\ Call(p, "Data.Set", args, NoError)
          /\ frame' = [frame EXCEPT ![p].claim.Data = PresentJSONB(JSONBytes(args.v))]
          /\ Goto(p, "SetCredentialStatus")
          /\ UNCHANGED logged
    /\ UNCHANGED <<server, store, request>>

\* CreateClaim_SetCredentialStatus with the return after the failure left out:
\* the failure is logged and the run goes on to Save.
CreateClaim_SetCredentialStatus_NoReturn(p) ==
    /\ pc[p] = "SetCredentialStatus"
    /\ LET args == [v |-> frame[p].vc.CredentialStatus] IN
       \/ LET err == CollaboratorError("CredentialStatus.Set") IN
            /\ Call(p, "CredentialStatus.Set", args, err)
            /\ Log(p, "error", "Can not set the credential status")
            /\ Goto(p, "Save")
            /\ UNCHANGED frame
       \/ /\ Call(p, "CredentialStatus.Set", args, NoError)
          /\ frame' = [frame EXCEPT
                 ![p].claim.CredentialStatus = PresentJSONB(JSONBytes(args.v))]
          /\ Goto(p, "Save")
          /\ UNCHANGED logged
    /\ UNCHANGED <<server, store, request>>

\* err = claim.CredentialStatus.Set(vc.CredentialStatus)
CreateClaim_SetCredentialStatus(p) ==
    /\ pc[p] = "SetCredentialStatus"
    /\ LET args == [v |-> frame[p].vc.CredentialStatus] IN
       \/ LET err == CollaboratorError("CredentialStatus.Set") IN
            /\ Call(p, "CredentialStatus.Set", args, err)
            /\ Log(p, "error", "Can not set the credential status")
            /\ Return(p, CreateClaim500JSONResponse(ErrorString(err)), NoError)
            /\ UNCHANGED frame
       \/ /\ Call(p, "CredentialStatus.Set", args, NoError)
          /\ frame' = [frame EXCEPT
                 ![p].claim.CredentialStatus = PresentJSONB(JSONBytes(args.v))]
          /\ Goto(p, "Save")
          /\ UNCHANGED logged
    /\ UNCHANGED <<server, store, request>>

\* CreateClaim_Save with the error of Save ignored: the 201 is returned, with
\* the id of the claim handed to Save, whether or not the store took the claim.
CreateClaim_Save_IgnoreError(p) ==
    /\ pc[p] = "Save"
    /\ LET args == [claim |-> frame[p].claim] IN
       \/ LET err == CollaboratorError("Save") IN
            /\ Call(p, "Save", args, err)
            /\ Return(p, CreateClaim201JSONResponse(IDString(args.claim.ID)), NoError)
            /\ UNCHANGED <<frame, store, logged>>
       \/ /\ ~Stored(args.claim.Issuer, args.claim.RevNonce)
          /\ Cardinality(store) < MaxSaved
          /\ LET claimResp == [args.claim EXCEPT !.ID = Cardinality(store) + 1] IN
               /\ Call(p, "Save", args, NoError)
               /\ store' = store \cup {StoreRecord(claimResp)}
               /\ frame' = [frame EXCEPT ![p].claimResp = claimResp]
               /\ Return(p, CreateClaim201JSONResponse(IDString(claimResp.ID)), NoError)
               /\ UNCHANGED logged
    /\ UNCHANGED <<server, request>>

\* CreateClaim_Save with request-level deduplication: when the store already
\* holds a claim of the issuer, its id is returned and nothing is saved.
CreateClaim_Save_Deduplicate(p) ==
    /\ pc[p] = "Save"
    /\ LET args == [claim |-> frame[p].claim] IN
       IF \E r \in store : r.Issuer = args.claim.Issuer
       THEN LET r == CHOOSE r \in store : r.Issuer = args.claim.Issuer IN
            /\ frame' = [frame EXCEPT ![p].claimResp = [args.claim EXCEPT !.ID = r.ID]]
            /\ Return(p, CreateClaim201JSONResponse(IDString(r.ID)), NoError)
            /\ UNCHANGED <<store, calls, logged>>
       ELSE
       \/ LET err == CollaboratorError("Save") IN
            /\ Call(p, "Save", args, err)
            /\ Log(p, "error", "Can not save the claim")
            /\ Return(p, CreateClaim500JSONResponse(ErrorString(err)), NoError)
            /\ UNCHANGED <<frame, store>>
       \/ /\ ~Stored(args.claim.Issuer, args.claim.RevNonce)
          /\ Cardinality(store) < MaxSaved
          /\ LET claimResp == [args.claim EXCEPT !.ID = Cardinality(store) + 1] IN
               /\ Call(p, "Save", args, NoError)
               /\ store' = store \cup {StoreRecord(claimResp)}
               /\ frame' = [frame EXCEPT ![p].claimResp = claimResp]
               /\ Return(p, CreateClaim201JSONResponse(IDString(claimResp.ID)), NoError)
               /\ UNCHANGED logged
    /\ UNCHANGED <<server, request>>

\* The Claim Store takes the claim: its (issuer, nonce) is new and there is room.
SaveAccepts(claim) ==
    /\ ~Stored(claim.Issuer, claim.RevNonce)
    /\ Cardinality(store) < MaxSaved

\* claimResp, err := s.claimService.Save(ctx, claim)
\* return CreateClaim201JSONResponse{Id: claimResp.ID.String()}, nil
CreateClaim_Save(p) ==
    /\ pc[p] = "Save"
    /\ LET args == [claim |-> frame[p].claim] IN
       \/ \E err \in CallErrors(p, "Save") :
            /\ Call(p, "Save", args, err)
            /\ Log(p, "error", "Can not save the claim")
            /\ Return(p, CreateClaim500JSONResponse(ErrorString(err)), NoError)
            /\ UNCHANGED <<frame, store>>
       \/ /\ SaveAccepts(args.claim)
          /\ LET claimResp == [args.claim EXCEPT !.ID = Cardinality(store) + 1] IN
               /\ Call(p, "Save", args, NoError)
               /\ store' = store \cup {StoreRecord(claimResp)}
               /\ frame' = [frame EXCEPT ![p].claimResp = claimResp]
               /\ Return(p, CreateClaim201JSONResponse(IDString(claimResp.ID)), NoError)
               /\ UNCHANGED logged
    /\ UNCHANGED <<server, request>>

----------------------------------------------------------------------------
(* Server.RevokeClaim *)

RevokeClaim_Begin(p) ==
    \E id \in Identifiers, n \in RevokeNonces :
        Begin(p, [op |-> "RevokeClaim", Identifier |-> id, Nonce |-> n], "Revoke")

\* RevokeClaimResponse with the error compared by == instead of errors.Is: a
\* wrapped claim-does-not-exist error falls through to the 500.
RevokeClaimResponse_DirectCompare(err) ==
    IF err # NoError
    THEN IF err = ErrClaimDoesNotExist
         THEN RevokeClaim404JSONResponse("the claim does not exist")
         ELSE RevokeClaim500JSONResponse(ErrorString(err))
    ELSE RevokeClaim202JSONResponse("pending")

\* RevokeClaimResponse with the claim-does-not-exist error swallowed: revoking
\* an absent claim is answered like a successful revocation.
RevokeClaimResponse_AbsentAccepted(err) ==
    IF err # NoError /\ ~ErrorsIs(err, ErrClaimDoesNotExist)
    THEN RevokeClaim500JSONResponse(ErrorString(err))
    ELSE RevokeClaim202JSONResponse("pending")

\* The response RevokeClaim gives to the error Revoke returned.
RevokeClaimResponse(err) ==
    IF err # NoError
    THEN IF ErrorsIs(err, ErrClaimDoesNotExist)
         THEN RevokeClaim404JSONResponse("the claim does not exist")
         ELSE RevokeClaim500JSONResponse(ErrorString(err))
    ELSE RevokeClaim202JSONResponse("pending")

\* The errors the Claim Store can answer a revocation of (issuer, nonce) with;
\* NoError when it holds the claim.
RevokeOutcomes(issuer, nonce) ==
    IF Stored(issuer, nonce)
    THEN {NoError, CollaboratorError("Revoke")}
    ELSE RevokeErrors

\* err := s.claimService.Revoke(ctx, request.Identifier, uint64(request.Nonce), "")
RevokeClaim_Revoke(p) ==
    /\ pc[p] = "Revoke"
    /\ LET args == [identifier |-> request[p].Identifier,
                    nonce |-> Uint64(request[p].Nonce), description |-> ""]
       IN
       \E err \in RevokeOutcomes(args.identifier, args.nonce) :
          /\ Call(p, "Revoke", args, err)
          /\ store' = IF err = NoError
                      THEN { IF r.Issuer = args.identifier /\ r.RevNonce = args.nonce
                             THEN [r EXCEPT !.Revoked = TRUE] ELSE r : r \in store }
                      ELSE store
          /\ Return(p, RevokeClaimResponse(err), NoError)
    /\ UNCHANGED <<server, request, frame, logged>>

----------------------------------------------------------------------------
(* Server.CreateIdentity *)

CreateIdentity_Begin(p) ==
    Begin(p, [op |-> "CreateIdentity"], "Create")

\* The identity identityService.Create returns
Identities ==
    { [Identifier |-> <<"did", "iden3", "A">>, Immutable |-> FALSE, Relay |-> "",
       State |-> [Status |-> "created"]] }

\* CreateIdentity_Create rewriting the configured server URL in place before
\* it is handed to the Identity Manager.
CreateIdentity_Create_RewritesConfig(p) ==
    /\ pc[p] = "Create"
    /\ LET args == [hostURL |-> HostURL(server.cfg)] IN
       \/ LET err == CollaboratorError("Create") IN
            /\ Call(p, "Create", args, err)
            /\ Return(p, Nil, err)
            /\ UNCHANGED frame
       \/ \E identity \in Identities :
            /\ Call(p, "Create", args, NoError)
            /\ frame' = [frame EXCEPT ![p].identity = identity]
            /\ Return(p, CreateIdentity201JSONResponse(identity), NoError)
    /\ server' = [server EXCEPT !.cfg.ServerUrl = "http://127.0.0.1"]
    /\ UNCHANGED <<store, request, logged>>

\* identity, err := s.identityService.Create(ctx, fmt.Sprintf("%s:%d", ...))
\* if err != nil { return nil, err }
CreateIdentity_Create(p) ==
    /\ pc[p] = "Create"
    /\ LET args == [hostURL |-> HostURL(server.cfg)] IN
       \/ LET err == CollaboratorError("Create") IN
            /\ Call(p, "Create", args, err)
            /\ Return(p, Nil, err)
            /\ UNCHANGED frame
       \/ \E identity \in Identities :
            /\ Call(p, "Create", args, NoError)
            /\ frame' = [frame EXCEPT ![p].identity = identity]
            /\ Return(p, CreateIdentity201JSONResponse(identity), NoError)
    /\ UNCHANGED <<server, store, request, logged>>

----------------------------------------------------------------------------
(* Specification *)

\* One step of handler p.
Step(p) ==
    \/ CreateClaim_Begin(p)
    \/ CreateClaim_CheckIdentifier(p)
    \/ CreateClaim_ParseDID(p)
    \/ CreateClaim_LoadSchema(p)
    \/ CreateClaim_RandInt64(p)
    \/ CreateClaim_CreateVC(p)
    \/ CreateClaim_JsonLdContext(p)
    \/ CreateClaim_Process(p)
    \/ CreateClaim_FromClaimer(p)
    \/ CreateClaim_GetAuthClaim(p)
    \/ CreateClaim_SignClaimEntry(p)
    \/ CreateClaim_GetRevocationSource(p)
    \/ CreateClaim_MarshalProof(p)
    \/ CreateClaim_SetSignatureProof(p)
    \/ CreateClaim_SetData(p)
    \/ CreateClaim_SetCredentialStatus(p)
    \/ CreateClaim_Save(p)
    \/ RevokeClaim_Begin(p)
    \/ RevokeClaim_Revoke(p)
    \/ CreateIdentity_Begin(p)
    \/ CreateIdentity_Create(p)

\* The controllers serve one request after another.
Next == Step("p1")

Spec == Init /\ [][Next]_vars

\* The requests of concurrent issuance: every handler issues for the same
\* issuer and schema, with any claim type.
CreateClaim_BeginConcurrent(p) ==
    \E t \in ClaimTypes :
        Begin(p, [op |-> "CreateClaim", Identifier |-> <<"did", "iden3", "A">>,
                  Body |-> [CredentialSchema |-> "https://x/schema.json",
                            Type |-> t, Version |-> 0,
                            SubjectPosition |-> "index",
                            MerklizedRootPosition |-> ""]],
              "CheckIdentifier")

\* One step of handler p issuing a claim.
StepConcurrent(p) ==
    \/ CreateClaim_BeginConcurrent(p)
    \/ CreateClaim_CheckIdentifier(p)
    \/ CreateClaim_ParseDID(p)
    \/ CreateClaim_LoadSchema(p)
    \/ CreateClaim_RandInt64(p)
    \/ CreateClaim_CreateVC(p)
    \/ CreateClaim_JsonLdContext(p)
    \/ CreateClaim_Process(p)
    \/ CreateClaim_FromClaimer(p)
    \/ CreateClaim_GetAuthClaim(p)
    \/ CreateClaim_SignClaimEntry(p)
    \/ CreateClaim_GetRevocationSource(p)
    \/ CreateClaim_MarshalProof(p)
    \/ CreateClaim_SetSignatureProof(p)
    \/ CreateClaim_SetData(p)
    \/ CreateClaim_SetCredentialStatus(p)
    \/ CreateClaim_Save(p)

\* Requests are served concurrently, one goroutine per request: the steps of
\* the handlers interleave in any order.
NextConcurrent == \E p \in Procs : StepConcurrent(p)

SpecConcurrent == Init /\ [][NextConcurrent]_vars

\* CreateClaim requests of one issuer, retried after a return, with the caller
\* free to cancel at any statement.
StepCancel(p) ==
    \/ CreateClaim_BeginConcurrent(p)
    \/ Cancel(p)
    \/ CreateClaim_CheckIdentifier(p)
    \/ CreateClaim_ParseDID(p)
    \/ CreateClaim_LoadSchema(p)
    \/ CreateClaim_RandInt64(p)
    \/ CreateClaim_CreateVC(p)
    \/ CreateClaim_JsonLdContext(p)
    \/ CreateClaim_Process(p)
    \/ CreateClaim_FromClaimer(p)
    \/ CreateClaim_GetAuthClaim(p)
    \/ CreateClaim_SignClaimEntry(p)
    \/ CreateClaim_GetRevocationSource(p)
    \/ CreateClaim_MarshalProof(p)
    \/ CreateClaim_SetSignatureProof(p)
    \/ CreateClaim_SetData(p)
    \/ CreateClaim_SetCredentialStatus(p)
    \/ CreateClaim_Save(p)

NextCancel == StepCancel("p1")

SpecCancel == Init /\ [][NextCancel]_vars

----------------------------------------------------------------------------
(* Vocabulary of the properties *)

\* Handler p serves (or has just served) operation op.
Serving(p, op) == pc[p] # "idle" /\ request[p].op = op

\* Handler p has returned from operation op.
Returned(p, op) == pc[p] = "done" /\ request[p].op = op

\* The step taken is a step of handler p.
StepOf(p) == pc'[p] # pc[p]

\* The names of the collaborators handler p has called, in order.
CallNames(p) == [i \in 1..Len(calls[p]) |-> calls[p][i].fn]

\* The positions in calls[p] of the calls of collaborator fn.
CallsOf(p, fn) == { i \in 1..Len(calls[p]) : calls[p][i].fn = fn }

\* The positions in calls[p] of the calls that returned an error.
FailedCalls(p) == { i \in 1..Len(calls[p]) : calls[p][i].err # NoError }

\* Every stage of CreateClaim that calls out, in the order of the source.
StagesBeforeSave ==
    << "LoadSchema", "rand.Int64", "CreateVC", "Process", "FromClaimer",
       "GetAuthClaim", "SignClaimEntry", "GetRevocationSource", "json.Marshal",
       "SignatureProof.Set", "Data.Set", "CredentialStatus.Set" >>

\* The identifier of handler p's request is non-empty and parses as a DID.
IdentifierValid(p) ==
    /\ request[p].Identifier # <<>>
    /\ CoreParseDID(request[p].Identifier).err = NoError

\* The schema resolved for handler p carries a JSON-LD context URI string.
HasJsonLdContext(p) ==
    /\ frame[p].schema # Nil
    /\ "jsonLdContext" \in DOMAIN frame[p].schema.Metadata.Uris
    /\ frame[p].schema.Metadata.Uris["jsonLdContext"].kind = "string"

\* The stage of CreateClaim whose failure ended handler p's run; "none" when
\* no stage failed.  Read off the request and the collaborators' answers only.
FailedStage(p) ==
    IF ~IdentifierValid(p) THEN "identifier"
    ELSE IF FailedCalls(p) # {}
         THEN calls[p][CHOOSE i \in FailedCalls(p) :
                          \A j \in FailedCalls(p) : i <= j].fn
    ELSE IF frame[p].schema # Nil /\ ~HasJsonLdContext(p)
            /\ Len(calls[p]) >= 3
         THEN "jsonLdContext"
    ELSE "none"

----------------------------------------------------------------------------
(* C1 *)

\* Every call of Save by handler p is its only one and its last call, and comes
\* after every earlier stage has succeeded.
SaveAfterAllStages(p) ==
    \A i \in CallsOf(p, "Save") :
        /\ i = Len(calls[p])
        /\ i = Len(StagesBeforeSave) + 1
        /\ SubSeq(CallNames(p), 1, i - 1) = StagesBeforeSave
        /\ \A j \in 1..(i - 1) : calls[p][j].err = NoError
        /\ IdentifierValid(p)
        /\ HasJsonLdContext(p)

\* A step of a CreateClaim handler changes the Claim Store only when it is the
\* step in which Save succeeds.
StoreChangedOnlyBySave(p) ==
    (Serving(p, "CreateClaim") /\ StepOf(p) /\ store' # store)
        => /\ pc[p] = "Save"
           /\ calls'[p][Len(calls'[p])].fn = "Save"
           /\ calls'[p][Len(calls'[p])].err = NoError
           /\ Cardinality(store' \ store) = 1
           /\ store \subseteq store'

\* C1: in every execution of CreateClaim, Save is invoked at most once and only
\* after identifier validation, schema load, nonce draw, VC build, the
\* jsonLdContext check, encoding, claim assembly, auth-claim fetch, signing and
\* the serialisations have all succeeded; a step of CreateClaim other than a
\* successful Save leaves the persisted claim records as they were.
C1_SaveIsTheOnlyCommitPoint ==
    /\ [](\A p \in Procs : Serving(p, "CreateClaim") => SaveAfterAllStages(p))
    /\ [][\A p \in Procs : StoreChangedOnlyBySave(p)]_vars

\* A CreateClaim run has reached Save through every stage and Save succeeded.
C1_Witness ==
    \E p \in Procs :
        /\ Returned(p, "CreateClaim")
        /\ CallsOf(p, "Save") # {}
        /\ FailedCalls(p) = {}
        /\ store # {}

----------------------------------------------------------------------------
(* C2 *)

ErrorResponseTypes == {"CreateClaim400JSONResponse", "CreateClaim500JSONResponse"}

\* Save was invoked by handler p and succeeded.
SaveSucceeded(p) == \E i \in CallsOf(p, "Save") : calls[p][i].err = NoError

\* Nothing is returned before the run ends; what is returned is one typed
\* response with a nil error, the 201 exactly when Save succeeded, and the 201
\* carries the id of the record Save returned, which the store holds.
OneOutcome(p) ==
    /\ pc[p] # "done" => response[p] = [resp |-> Nil, err |-> NoError]
    /\ pc[p] = "done" =>
        /\ response[p].err = NoError
        /\ response[p].resp.type \in ErrorResponseTypes \cup {"CreateClaim201JSONResponse"}
        /\ response[p].resp.type = "CreateClaim201JSONResponse" <=> SaveSucceeded(p)
        /\ response[p].resp.type \in ErrorResponseTypes =>
               StatusCode(response[p].resp) \in {400, 500}
        /\ response[p].resp.type = "CreateClaim201JSONResponse" =>
               /\ StatusCode(response[p].resp) = 201
               /\ response[p].resp.Id = IDString(frame[p].claimResp.ID)
               /\ \E r \in store : r.ID = frame[p].claimResp.ID

\* A step of a running CreateClaim handler persists a record exactly when it is
\* the step that returns the 201.
RecordIffCreated(p) ==
    (Serving(p, "CreateClaim") /\ pc[p] # "done" /\ StepOf(p))
        => (store' # store <=>
               /\ pc'[p] = "done"
               /\ response'[p].resp.type = "CreateClaim201JSONResponse")

\* C2: every execution of CreateClaim ends in exactly one outcome, the 201
\* carrying the id returned by a successful Save or one typed 400/500 error
\* response; a record is persisted only together with the 201, and the 201 is
\* returned if and only if Save was invoked and succeeded.
C2_ExactlyOneOutcome ==
    /\ [](\A p \in Procs : Serving(p, "CreateClaim") => OneOutcome(p))
    /\ [][\A p \in Procs : RecordIffCreated(p)]_vars

\* A CreateClaim run whose Save was invoked and failed has returned.
C2_Witness ==
    \E p \in Procs :
        /\ Returned(p, "CreateClaim")
        /\ \E i \in CallsOf(p, "Save") : calls[p][i].err # NoError
        /\ StatusCode(response[p].resp) = 500

----------------------------------------------------------------------------
(* C3 *)

\* The claim value is complete: issuer and identifier are the string of the
\* requested DID, and proof, data and credential status are set.
CompleteClaim(p, claim) ==
    LET requested == DIDString(CoreParseDID(request[p].Identifier).did) IN
    /\ claim.Issuer = requested
    /\ claim.Identifier = StringPtr(requested)
    /\ claim.SignatureProof.Status = "Present"
    /\ claim.SignatureProof.Bytes # Nil
    /\ claim.Data.Status = "Present"
    /\ claim.Data.Bytes # JSONBytes(Nil)
    /\ claim.CredentialStatus.Status = "Present"
    /\ claim.CredentialStatus.Bytes # JSONBytes(Nil)

\* C3: every claim value CreateClaim passes to Claim Store Save has Issuer and
\* Identifier both set to the string form of the requested DID and has
\* SignatureProof, Data and CredentialStatus all set.
C3_SavedClaimIsComplete ==
    \A p \in Procs :
        Serving(p, "CreateClaim") =>
            \A i \in CallsOf(p, "Save") : CompleteClaim(p, calls[p][i].args.claim)

\* Save has been handed a claim issued by the second DID of the inputs.
C3_Witness ==
    \E p \in Procs :
        /\ Serving(p, "CreateClaim")
        /\ \E i \in CallsOf(p, "Save") :
               calls[p][i].args.claim.Issuer = <<"did", "iden3", "B">>

----------------------------------------------------------------------------
(* C4 *)

\* The schema resolved for handler p has no string under key jsonLdContext.
SchemaLacksContext(p) == frame[p].schema # Nil /\ ~HasJsonLdContext(p)

\* C4 as stated: when the resolved schema has no JSON-LD context URI,
\* CreateClaim always returns the 400 "invalid jsonLdContext" and
\* SignClaimEntry receives no call, whatever nonce generator and credential
\* builder do.
C4_AsStated ==
    \A p \in Procs :
        (Returned(p, "CreateClaim") /\ SchemaLacksContext(p)) =>
            /\ response[p].resp = CreateClaim400JSONResponse("invalid jsonLdContext")
            /\ CallsOf(p, "SignClaimEntry") = {}

\* C4, amended: when the resolved schema has no JSON-LD context URI,
\* SignClaimEntry receives no call whatever the other collaborators do, and
\* CreateClaim returns the 400 "invalid jsonLdContext" unless the nonce draw or
\* the VC build failed first, in which case it returns the 500 of that failure.
C4_NoContextNoSigning ==
    \A p \in Procs :
        (Serving(p, "CreateClaim") /\ SchemaLacksContext(p)) =>
            /\ CallsOf(p, "SignClaimEntry") = {}
            /\ pc[p] \in {"RandInt64", "CreateVC", "JsonLdContext", "done"}
            /\ pc[p] = "done" =>
                 IF FailedStage(p) \in {"rand.Int64", "CreateVC"}
                 THEN response[p].resp =
                        CreateClaim500JSONResponse(
                            ErrorString(calls[p][Len(calls[p])].err))
                 ELSE response[p].resp =
                        CreateClaim400JSONResponse("invalid jsonLdContext")

\* A run whose schema has a non-string jsonLdContext drew its nonce, built the
\* VC and returned the 400.
C4_Witness ==
    \E p \in Procs :
        /\ Returned(p, "CreateClaim")
        /\ SchemaLacksContext(p)
        /\ "jsonLdContext" \in DOMAIN frame[p].schema.Metadata.Uris
        /\ CallNames(p) = <<"LoadSchema", "rand.Int64", "CreateVC">>
        /\ StatusCode(response[p].resp) = 400

----------------------------------------------------------------------------
(* C5 *)

\* C5: every error path of CreateIdentity, CreateClaim and RevokeClaim returns
\* exactly one of the typed response variants (Success, 400, 404, 500), never a
\* raw error or an empty response; an Identity Manager failure in
\* CreateIdentity surfaces as a server-fault response.
C5_EveryPathTyped ==
    \A p \in Procs :
        pc[p] = "done" =>
            /\ response[p].err = NoError
            /\ response[p].resp # Nil
            /\ StatusCode(response[p].resp) \in {201, 202, 400, 404, 500}
            /\ (request[p].op = "CreateIdentity" /\ FailedCalls(p) # {}) =>
                   StatusCode(response[p].resp) = 500

----------------------------------------------------------------------------
(* C6 *)

\* C6: if the request identifier is empty or does not parse as a DID,
\* CreateClaim returns a 400 (with message "Invalid request identifier" for the
\* empty identifier) and no collaborator is invoked.
C6_InvalidIdentifierStopsFirst ==
    \A p \in Procs :
        (Serving(p, "CreateClaim") /\ ~IdentifierValid(p)) =>
            /\ calls[p] = <<>>
            /\ pc[p] \in {"CheckIdentifier", "ParseDID", "done"}
            /\ pc[p] = "done" =>
                 /\ response[p].err = NoError
                 /\ StatusCode(response[p].resp) = 400
                 /\ request[p].Identifier = <<>> =>
                        response[p].resp.Message = "Invalid request identifier"

\* A run with the empty identifier has returned its 400.
C6_Witness ==
    \E p \in Procs :
        /\ Returned(p, "CreateClaim")
        /\ request[p].Identifier = <<>>
        /\ response[p].resp.type = "CreateClaim400JSONResponse"

----------------------------------------------------------------------------
(* C7 *)

\* The stages of CreateClaim after the nonce draw.
StagesAfterNonce ==
    { StagesBeforeSave[i] : i \in 3..Len(StagesBeforeSave) } \cup {"Save"}

\* C7: if the nonce generator fails, CreateClaim returns a 500, no
\* collaborator after the nonce draw is invoked, and Save is never invoked.
C7_NonceFailureAborts ==
    \A p \in Procs :
        Serving(p, "CreateClaim") =>
            \A i \in CallsOf(p, "rand.Int64") :
                calls[p][i].err # NoError =>
                    /\ pc[p] = "done"
                    /\ StatusCode(response[p].resp) = 500
                    /\ response[p].resp.Message = ErrorString(calls[p][i].err)
                    /\ \A fn \in StagesAfterNonce : CallsOf(p, fn) = {}

\* The nonce generator has failed in a run that had resolved its schema.
C7_Witness ==
    \E p \in Procs :
        /\ Returned(p, "CreateClaim")
        /\ CallNames(p) = <<"LoadSchema", "rand.Int64">>
        /\ calls[p][2].err # NoError

----------------------------------------------------------------------------
(* C8 *)

\* C8 as stated: CreateClaim returns a 400 only for a malformed identifier, an
\* unresolvable schema or a missing schema field; a failure of nonce
\* generation, signing, core-claim encoding (Claim Encoder), persistence or
\* the identity manager always yields a 500.
C8_AsStated ==
    \A p \in Procs :
        Returned(p, "CreateClaim") =>
            /\ StatusCode(response[p].resp) = 400 =>
                   FailedStage(p) \in {"identifier", "LoadSchema", "jsonLdContext"}
            /\ FailedStage(p) \in {"rand.Int64", "SignClaimEntry", "Process", "Save",
                                   "GetAuthClaim"} =>
                   StatusCode(response[p].resp) = 500

\* C8, amended: CreateClaim returns a 400 only for a malformed identifier, an
\* unresolvable schema, a missing schema field or a core-claim encoding (Claim
\* Encoder) failure; a failure of nonce generation, signing, persistence or
\* the identity manager always yields a 500.
C8_FaultClasses ==
    \A p \in Procs :
        Returned(p, "CreateClaim") =>
            /\ StatusCode(response[p].resp) = 400 =>
                   FailedStage(p) \in {"identifier", "LoadSchema", "jsonLdContext",
                                       "Process"}
            /\ FailedStage(p) \in {"rand.Int64", "SignClaimEntry", "Save",
                                   "GetAuthClaim"} =>
                   StatusCode(response[p].resp) = 500

\* The Claim Encoder has failed and the run has returned a 400.
C8_Witness ==
    \E p \in Procs :
        /\ Returned(p, "CreateClaim")
        /\ FailedStage(p) = "Process"
        /\ StatusCode(response[p].resp) = 400

----------------------------------------------------------------------------
(* C9 *)

\* The stages whose failure CreateClaim answers with the 500 response.
ServerFaultStages ==
    { "CreateVC", "FromClaimer", "GetAuthClaim", "SignClaimEntry", "json.Marshal",
      "SignatureProof.Set", "Data.Set", "CredentialStatus.Set", "Save" }

\* The message of the error the failing collaborator of handler p returned.
FailureMessage(p) ==
    ErrorString(calls[p][CHOOSE i \in FailedCalls(p) : TRUE].err)

\* C9: the response of CreateClaim is determined by the first failing stage:
\* schema resolution -> 400 with the resolver's message; VC build -> 500;
\* missing jsonLdContext -> 400; Claim Encoder -> 400 with the encoder's
\* message; claim assembly, auth-claim fetch, signing, the serialisations and
\* Save -> 500; no failing stage -> 201.  No stage runs after a failing one.
C9_ResponseByFirstFailure ==
    \A p \in Procs :
        Serving(p, "CreateClaim") =>
            /\ \A i \in FailedCalls(p) : i = Len(calls[p]) /\ pc[p] = "done"
            /\ pc[p] = "done" =>
                LET stage == FailedStage(p)
                    resp  == response[p].resp
                IN
                /\ stage \in {"LoadSchema", "Process"} =>
                       resp = CreateClaim400JSONResponse(FailureMessage(p))
                /\ stage = "jsonLdContext" =>
                       resp = CreateClaim400JSONResponse("invalid jsonLdContext")
                /\ stage \in ServerFaultStages =>
                       resp = CreateClaim500JSONResponse(FailureMessage(p))
                /\ stage = "none" => StatusCode(resp) = 201

\* A serialisation has failed after signing and the run has returned its 500.
C9_Witness ==
    \E p \in Procs :
        /\ Returned(p, "CreateClaim")
        /\ FailedStage(p) = "Data.Set"
        /\ CallsOf(p, "SignClaimEntry") # {}
        /\ response[p].resp.type = "CreateClaim500JSONResponse"

----------------------------------------------------------------------------
(* C10 *)

\* C10: every RevokeClaim invokes Claim Store Revoke exactly once, with the
\* request's identifier and nonce; it answers 404 exactly when the store's
\* error is or wraps the claim-does-not-exist error, 500 for every other
\* store error, and 202 with status "pending" exactly when there is no error.
C10_RevokeResponses ==
    \A p \in Procs :
        Serving(p, "RevokeClaim") =>
            /\ pc[p] = "Revoke" => calls[p] = <<>>
            /\ pc[p] = "done" =>
                /\ Len(calls[p]) = 1
                /\ calls[p][1].fn = "Revoke"
                /\ calls[p][1].args.identifier = request[p].Identifier
                /\ calls[p][1].args.nonce = Uint64(request[p].Nonce)
                /\ response[p].err = NoError
                /\ LET err    == calls[p][1].err
                       status == StatusCode(response[p].resp)
                       absent == \E i \in 1..Len(err) :
                                     SubSeq(err, i, Len(err)) = ErrClaimDoesNotExist
                   IN
                   /\ status \in {202, 404, 500}
                   /\ status = 404 <=> (err # NoError /\ absent)
                   /\ status = 500 <=> (err # NoError /\ ~absent)
                   /\ status = 202 <=> err = NoError
                   /\ status = 202 => response[p].resp.Status = "pending"

\* The store has answered a revocation of nonce -1 with an error wrapping the
\* claim-does-not-exist error, and RevokeClaim has returned.
C10_Witness ==
    \E p \in Procs :
        /\ Returned(p, "RevokeClaim")
        /\ request[p].Nonce = -1
        /\ Len(calls[p]) = 1
        /\ Len(calls[p][1].err) = 2
        /\ StatusCode(response[p].resp) = 404

----------------------------------------------------------------------------
(* C11 *)

\* The (issuer, nonce) a RevokeClaim request of handler p names.
RevokeKey(p) ==
    [issuer |-> request[p].Identifier, nonce |-> Uint64(request[p].Nonce)]

\* C11 as stated: RevokeClaim(issuer, n) returns NotFound when no claim with
\* (issuer, n) was ever successfully issued and Accepted when such a claim was
\* issued.
C11_AsStated ==
    \A p \in Procs :
        Returned(p, "RevokeClaim") =>
            IF Stored(RevokeKey(p).issuer, RevokeKey(p).nonce)
            THEN StatusCode(response[p].resp) = 202
            ELSE StatusCode(response[p].resp) = 404

\* A record the Claim Store holds is never removed: a claim once issued stays
\* issued, whatever is saved or revoked afterwards.
IssuedStaysIssued ==
    \A r \in store : \E r2 \in store' :
        r2.ID = r.ID /\ r2.Issuer = r.Issuer /\ r2.RevNonce = r.RevNonce

\* The step in which handler p's RevokeClaim returns: never Accepted for a
\* claim that was not issued, never NotFound for one that was.
RevokeAnswersIssuance(p) ==
    (pc[p] = "Revoke" /\ pc'[p] = "done") =>
        IF Stored(RevokeKey(p).issuer, RevokeKey(p).nonce)
        THEN StatusCode(response'[p].resp) \in {202, 500}
        ELSE StatusCode(response'[p].resp) \in {404, 500}

\* C11, amended: after any sequence of CreateClaim and RevokeClaim operations,
\* RevokeClaim(issuer, n) returns NotFound, or ServerFault when the store fails
\* otherwise, and never Accepted, when no claim with (issuer, n) was ever
\* successfully issued; it returns Accepted, or ServerFault when the store
\* fails, and never NotFound, when such a claim was issued; every RevokeClaim,
\* a second one of the same (issuer, n) included, ends with one defined
\* response (202, 404 or 500).
C11_RevokeFollowsIssuance ==
    /\ [](\A p \in Procs :
             Returned(p, "RevokeClaim") =>
                 /\ response[p].err = NoError
                 /\ StatusCode(response[p].resp) \in {202, 404, 500})
    /\ [][IssuedStaysIssued /\ \A p \in Procs : RevokeAnswersIssuance(p)]_vars

\* A claim that was issued has been revoked by the RevokeClaim that just
\* returned Accepted.
C11_Witness ==
    \E p \in Procs :
        /\ Returned(p, "RevokeClaim")
        /\ StatusCode(response[p].resp) = 202
        /\ \E r \in store :
               /\ r.Issuer = RevokeKey(p).issuer
               /\ r.RevNonce = RevokeKey(p).nonce
               /\ r.Revoked

----------------------------------------------------------------------------
(* C12 *)

\* Handler p has returned from a CreateClaim in which no collaborator failed.
Issued(p) ==
    /\ Returned(p, "CreateClaim")
    /\ FailedStage(p) = "none"

\* Handler p drew its nonce itself and Save took a claim carrying it.
DrewAndSaved(p) ==
    /\ Cardinality(CallsOf(p, "rand.Int64")) = 1
    /\ Cardinality(CallsOf(p, "Save")) = 1
    /\ SaveSucceeded(p)
    /\ \A i \in CallsOf(p, "Save") :
           calls[p][i].args.claim.RevNonce = frame[p].nonce
    /\ StatusCode(response[p].resp) = 201
    /\ \E r \in store :
           /\ r.ID = frame[p].claimResp.ID
           /\ r.RevNonce = frame[p].nonce
           /\ IDString(r.ID) = response[p].resp.Id

\* C12: two CreateClaim calls with identical inputs, both succeeding in every
\* collaborator, each draw a nonce; the two nonces are distinct and two
\* distinct claim records are persisted: the second call is not collapsed
\* into the first.
C12_NoDeduplication ==
    \A p, q \in Procs :
        (p # q /\ Issued(p) /\ Issued(q) /\ request[p] = request[q]) =>
            /\ DrewAndSaved(p)
            /\ DrewAndSaved(q)
            /\ frame[p].nonce # frame[q].nonce
            /\ frame[p].claimResp.ID # frame[q].claimResp.ID
            /\ response[p].resp.Id # response[q].resp.Id
            /\ Cardinality(store) >= 2

\* Two calls with the same request have both returned their 201.
C12_Witness ==
    \E p, q \in Procs :
        /\ p # q
        /\ Issued(p) /\ Issued(q)
        /\ request[p] = request[q]
        /\ StatusCode(response[p].resp) = 201
        /\ StatusCode(response[q].resp) = 201
        /\ Cardinality(store) = 2

----------------------------------------------------------------------------
(* C13 *)

\* The statements of CreateClaim the cancellation is about: schema load, VC
\* build, encoding, auth-claim fetch, signing.
CancellableCalls ==
    {"LoadSchema", "CreateVC", "Process", "GetAuthClaim", "SignClaimEntry"}

\* The caller cancelled handler p's request while one of those calls was
\* running.
CancelledInFlight(p) ==
    /\ request[p] # Nil
    /\ request[p].op = "CreateClaim"
    /\ frame[p].ctx.during \in CancellableCalls

\* C13: when the caller cancels the request while an external collaborator
\* call of CreateClaim is in flight, the pipeline aborts: Save is not invoked
\* afterwards and no claim record is written.
\* The controller never reads ctx.Err(): a call that completes in spite of the
\* cancellation lets the run go on to Save.
C13_AsStated ==
    \A p \in Procs :
        CancelledInFlight(p) =>
            /\ CallsOf(p, "Save") = {}
            /\ frame[p].claimResp = Nil

\* What the code does guarantee: the call that reports the cancellation is the
\* last one of the run, and a nonce changes only by the run's own draw or by
\* the start of the next request.
ReportedCancellationAborts ==
    /\ [](\A p \in Procs : \A i \in 1..Len(calls[p]) :
              calls[p][i].err = ContextCanceled =>
                  /\ i = Len(calls[p])
                  /\ pc[p] = "done"
                  /\ frame[p].claimResp = Nil)
    /\ [][\A p \in Procs :
              frame'[p].nonce # frame[p].nonce =>
                  \/ pc[p] = "RandInt64" /\ pc'[p] = "CreateVC"
                  \/ Free(p) /\ frame'[p] = ZeroFrame]_vars

----------------------------------------------------------------------------
(* C14 *)

\* No two records of the store have the same (issuer, nonce).
UniqueIssuerNonce ==
    \A r1, r2 \in store :
        (r1.Issuer = r2.Issuer /\ r1.RevNonce = r2.RevNonce) => r1 = r2

\* Every collaborator call of handler p was given p's own request and p's own
\* earlier results: the schema URL and claim type of its request, the nonce
\* it drew itself, the issuer of its identifier.
OwnInputs(p) ==
    /\ \A i \in CallsOf(p, "LoadSchema") :
           calls[p][i].args.url = request[p].Body.CredentialSchema
    /\ \A i \in CallsOf(p, "CreateVC") :
           /\ calls[p][i].args.claimReq.Type = request[p].Body.Type
           /\ calls[p][i].args.claimReq.DID = CoreParseDID(request[p].Identifier).did
           /\ calls[p][i].args.nonce = frame[p].nonce
           /\ \E j \in CallsOf(p, "rand.Int64") : j < i /\ calls[p][j].err = NoError
    /\ \A i \in CallsOf(p, "Save") :
           /\ calls[p][i].args.claim.RevNonce = frame[p].nonce
           /\ calls[p][i].args.claim.Issuer = request[p].Identifier
           /\ calls[p][i].args.claim.SchemaType =
                  frame[p].jsonLdContext \o "#" \o request[p].Body.Type

\* The one response of handler p follows from p's own calls: the 201 with the
\* id of the record its own Save returned, or the error of its own failed call.
OwnResponse(p) ==
    /\ pc[p] # "done" => response[p] = [resp |-> Nil, err |-> NoError]
    /\ pc[p] = "done" =>
        /\ response[p].err = NoError
        /\ FailedStage(p) = "none" =>
               /\ SaveSucceeded(p)
               /\ response[p].resp = CreateClaim201JSONResponse(IDString(frame[p].claimResp.ID))
               /\ \E r \in store :
                      /\ r.ID = frame[p].claimResp.ID
                      /\ r.RevNonce = frame[p].nonce
        /\ FailedStage(p) \in {"LoadSchema", "Process"} =>
               response[p].resp = CreateClaim400JSONResponse(FailureMessage(p))
        /\ FailedStage(p) = "jsonLdContext" =>
               response[p].resp = CreateClaim400JSONResponse("invalid jsonLdContext")
        /\ FailedStage(p) \in ServerFaultStages =>
               response[p].resp = CreateClaim500JSONResponse(FailureMessage(p))

\* C14: under any interleaving of concurrent CreateClaim executions of one
\* issuer, each drawing its nonce itself, with the store rejecting a Save whose
\* (issuer, nonce) exists, the store never holds two records with the same
\* (issuer, nonce), and every execution ends in one response computed from its
\* own request and its own collaborator results.
C14_ConcurrentIssuance ==
    /\ UniqueIssuerNonce
    /\ \A p \in Procs :
           Serving(p, "CreateClaim") => OwnInputs(p) /\ OwnResponse(p)

\* Two executions drew the same nonce at the same time: one saved its claim,
\* the Save of the other failed, and each has its own response.
C14_Witness ==
    \E p, q \in Procs :
        /\ p # q
        /\ Returned(p, "CreateClaim") /\ Returned(q, "CreateClaim")
        /\ frame[p].nonce = frame[q].nonce
        /\ SaveSucceeded(p)
        /\ CallsOf(q, "Save") # {} /\ ~SaveSucceeded(q)
        /\ StatusCode(response[p].resp) = 201
        /\ StatusCode(response[q].resp) = 500
        /\ Cardinality(store) = 1

----------------------------------------------------------------------------
(* C15 *)

\* The collaborators of CreateClaim in the order of the pipeline.
Pipeline ==
    << "LoadSchema", "rand.Int64", "CreateVC", "Process", "FromClaimer",
       "GetAuthClaim", "SignClaimEntry", "GetRevocationSource", "Save" >>

IsCollaborator(fn) == \E k \in 1..Len(Pipeline) : Pipeline[k] = fn

\* The collaborator calls of handler p, in the order they were made.
CollaboratorCalls(p) == SelectSeq(CallNames(p), IsCollaborator)

\* C15: in every execution of CreateClaim the sequence of collaborator calls
\* is a prefix of LoadSchema, nonce draw, CreateVC, Process, FromClaimer,
\* GetAuthClaim, SignClaimEntry, GetRevocationSource, Save: each is called at
\* most once, in this order, never retried, and none after the first failure.
C15_CallsArePipelinePrefix ==
    \A p \in Procs :
        Serving(p, "CreateClaim") =>
            /\ Len(CollaboratorCalls(p)) <= Len(Pipeline)
            /\ CollaboratorCalls(p) = SubSeq(Pipeline, 1, Len(CollaboratorCalls(p)))
            /\ \A i \in FailedCalls(p) : i = Len(calls[p]) /\ pc[p] = "done"

\* A run cut short by the failure of GetAuthClaim: the first six collaborators
\* were called, in order, and none after the failure.
C15_Witness ==
    \E p \in Procs :
        /\ Returned(p, "CreateClaim")
        /\ CollaboratorCalls(p) = SubSeq(Pipeline, 1, 6)
        /\ calls[p][Len(calls[p])].fn = "GetAuthClaim"
        /\ calls[p][Len(calls[p])].err # NoError

----------------------------------------------------------------------------
(* C16 *)

\* The stages that use the nonce.
NonceUsers == {"CreateVC", "Process", "SignClaimEntry", "Save"}

\* Handler p drew its nonce once and before every stage that uses it; the VC
\* build, the encoder and Save were given that one value.
OneNonce(p) ==
    /\ Cardinality(CallsOf(p, "rand.Int64")) <= 1
    /\ \A i \in 1..Len(calls[p]) :
           calls[p][i].fn \in NonceUsers =>
               \E j \in CallsOf(p, "rand.Int64") : j < i /\ calls[p][j].err = NoError
    /\ \A i \in CallsOf(p, "CreateVC") : calls[p][i].args.nonce = frame[p].nonce
    /\ \A i \in CallsOf(p, "Process") : calls[p][i].args.opts.RevNonce = frame[p].nonce
    /\ \A i \in CallsOf(p, "CreateVC") : \A j \in CallsOf(p, "Process") :
           calls[p][j].args.opts.RevNonce = calls[p][i].args.nonce
    /\ \A i \in CallsOf(p, "Save") : calls[p][i].args.claim.RevNonce = frame[p].nonce

\* A run of handler p that failed has persisted nothing.
FailedRunSavedNothing(p) ==
    (pc[p] = "done" /\ FailedStage(p) # "none") =>
        /\ ~SaveSucceeded(p)
        /\ frame[p].claimResp = Nil

\* The nonce of handler p changes only when p draws it, or when the next
\* request starts from zero locals.
NonceSetOnlyByDraw(p) ==
    frame'[p].nonce # frame[p].nonce =>
        \/ /\ pc[p] = "RandInt64"
           /\ pc'[p] = "CreateVC"
           /\ frame[p].nonce = ZeroFrame.nonce
        \/ Free(p) /\ frame'[p] = ZeroFrame

\* The step that ends a CreateClaim run with an error response leaves the
\* store as it is.
FailingStepKeepsStore(p) ==
    (Serving(p, "CreateClaim") /\ pc[p] # "done" /\ pc'[p] = "done"
        /\ response'[p].resp.type \in ErrorResponseTypes) => store' = store

\* C16: each execution of CreateClaim draws its revocation nonce exactly once,
\* before the VC build, encoding, signing and Save, and never changes it; the
\* nonce passed to CreateVC and the RevNonce passed to Process are that value;
\* when a later stage fails, no claim carrying the nonce is persisted by the
\* run.
C16_NonceDrawnOnce ==
    /\ [](\A p \in Procs :
              Serving(p, "CreateClaim") => OneNonce(p) /\ FailedRunSavedNothing(p))
    /\ [][\A p \in Procs : NonceSetOnlyByDraw(p) /\ FailingStepKeepsStore(p)]_vars

\* Signing failed after the VC was built and encoded with the drawn nonce.
C16_Witness ==
    \E p \in Procs :
        /\ Returned(p, "CreateClaim")
        /\ FailedStage(p) = "SignClaimEntry"
        /\ frame[p].nonce \in DrawnNonces
        /\ CallsOf(p, "CreateVC") # {}
        /\ CallsOf(p, "Process") # {}
        /\ ~Stored(request[p].Identifier, frame[p].nonce)

----------------------------------------------------------------------------
(* C17 *)

\* Handler p has returned a failure: an error response or a Go error.
ReturnedFailure(p) ==
    /\ pc[p] = "done"
    /\ \/ response[p].err # NoError
       \/ StatusCode(response[p].resp) \in {400, 404, 500}

\* C17: every failure path of the controllers (each error return of
\* CreateClaim, the empty or malformed identifier and the schema resolution
\* failure included, and each error return of RevokeClaim and CreateIdentity)
\* writes exactly one log entry before the response is returned.
\* The returns at lines 115, 120 and 125 of CreateClaim and the failure returns
\* of RevokeClaim and CreateIdentity write none.
C17_AsStated ==
    \A p \in Procs : ReturnedFailure(p) => Len(logged[p]) = 1

\* The failures the controllers return without a log entry.
UnloggedFailure(p) ==
    \/ request[p].op \in {"RevokeClaim", "CreateIdentity"}
    \/ request[p].op = "CreateClaim" /\ FailedStage(p) \in {"identifier", "LoadSchema"}

\* What the code does: no run writes two entries, the failures of CreateClaim
\* from the nonce draw on write one, the others none, a success none.
LoggedAsCoded ==
    \A p \in Procs :
        /\ Len(logged[p]) <= 1
        /\ pc[p] = "done" =>
               Len(logged[p]) = IF ReturnedFailure(p) /\ ~UnloggedFailure(p) THEN 1 ELSE 0

----------------------------------------------------------------------------
(* C18 *)

\* The JSON-LD context URI of the schema resolved for handler p.
ContextURI(p) == frame[p].schema.Metadata.Uris["jsonLdContext"].val

\* C18: for every request whose schema has a JSON-LD context URI c and whose
\* claim type is t, the credential type passed to the Claim Encoder (Process)
\* and to the domain-claim assembly (FromClaimer) is the same string: c, then
\* "#", then t; "https://x/ctx" and "Age" give "https://x/ctx#Age".
C18_CredentialType ==
    \A p \in Procs :
        (Serving(p, "CreateClaim") /\ HasJsonLdContext(p)) =>
            \A i \in CallsOf(p, "Process") \cup CallsOf(p, "FromClaimer") :
                /\ calls[p][i].args.credentialType =
                       ContextURI(p) \o "#" \o request[p].Body.Type
                /\ (ContextURI(p) = "https://x/ctx" /\ request[p].Body.Type = "Age") =>
                       calls[p][i].args.credentialType = "https://x/ctx#Age"
                /\ \A j \in CallsOf(p, "Process") \cup CallsOf(p, "FromClaimer") :
                       calls[p][j].args.credentialType = calls[p][i].args.credentialType

\* The encoder and the claim assembly were both given "https://x/ctx#Age".
C18_Witness ==
    \E p \in Procs :
        /\ Serving(p, "CreateClaim")
        /\ request[p].Body.Type = "Age"
        /\ \E i \in CallsOf(p, "Process") :
               calls[p][i].args.credentialType = "https://x/ctx#Age"
        /\ \E i \in CallsOf(p, "FromClaimer") :
               calls[p][i].args.credentialType = "https://x/ctx#Age"

----------------------------------------------------------------------------
(* C19 *)

\* The descriptor of the issuer's auth claim: issuer DID string and the auth
\* claim's revocation nonce.
AuthClaimSource(p) ==
    [ID |-> request[p].Identifier, Type |-> "SparseMerkleTreeProof",
     RevocationNonce |-> frame[p].authClaim.RevNonce % (2 ^ NonceBits)]

\* The Save call at position s of handler p was given a claim whose serialised
\* proof carries the auth claim's descriptor, attached between the successful
\* signing and the serialisation of the proof.
SourceAttachedInOrder(p, s) ==
    \E sg \in CallsOf(p, "SignClaimEntry") :
    \E g \in CallsOf(p, "GetRevocationSource") :
    \E m \in CallsOf(p, "json.Marshal") :
    \E sp \in CallsOf(p, "SignatureProof.Set") :
        /\ sg < g /\ g < m /\ m < sp /\ sp < s
        /\ calls[p][sg].err = NoError
        /\ calls[p][g].args.issuerDID = request[p].Identifier
        /\ calls[p][g].args.nonce = AuthClaimSource(p).RevocationNonce
        /\ calls[p][m].args.v.IssuerData.CredentialStatus = AuthClaimSource(p)
        /\ calls[p][sp].args.v = JSONBytes(calls[p][m].args.v)
        /\ calls[p][s].args.claim.SignatureProof = PresentJSONB(calls[p][sp].args.v)

\* C19: in every CreateClaim execution that reaches Save, the revocation-source
\* descriptor attached to the proof's issuer data was computed from the issuer
\* DID string and the auth claim's revocation nonce, not from the nonce drawn
\* for the new claim, and it was attached after signing succeeded and before
\* the proof was serialised into the claim's SignatureProof field.
C19_RevocationSourceOfAuthClaim ==
    \A p \in Procs :
        Serving(p, "CreateClaim") =>
            /\ \A s \in CallsOf(p, "Save") : SourceAttachedInOrder(p, s)
            /\ \A g \in CallsOf(p, "GetRevocationSource") :
                   /\ calls[p][g].args.nonce = AuthClaimSource(p).RevocationNonce
                   /\ \E sg \in CallsOf(p, "SignClaimEntry") :
                          sg < g /\ calls[p][sg].err = NoError
                   /\ \A m \in CallsOf(p, "json.Marshal") : g < m

\* Save was given a claim whose proof names the auth claim's nonce, which is
\* not the nonce drawn for the claim.
C19_Witness ==
    \E p \in Procs : \E s \in CallsOf(p, "Save") :
        /\ Returned(p, "CreateClaim")
        /\ calls[p][s].args.claim.SignatureProof.Status = "Present"
        /\ calls[p][s].args.claim.SignatureProof.Bytes.json.IssuerData.CredentialStatus
               = AuthClaimSource(p)
        /\ AuthClaimSource(p).RevocationNonce # frame[p].nonce
        /\ calls[p][s].args.claim.RevNonce = frame[p].nonce

----------------------------------------------------------------------------
(* C20 *)

\* The operations of the Claim Store: Save, Revoke and the lookup of the
\* revocation-source descriptor by (issuer DID, nonce).
ClaimStoreOperations == {"Save", "Revoke", "GetRevocationSource"}

IsClaimStoreOperation(fn) == fn \in ClaimStoreOperations

\* The Claim Store operations handler p has invoked, in order.
ClaimStoreCalls(p) == SelectSeq(CallNames(p), IsClaimStoreOperation)

\* C20 as stated: each operation touches the Claim Store only through its own
\* single mutation: CreateClaim never invokes Revoke and makes no store read
\* before its one Save, RevokeClaim invokes only Revoke, CreateIdentity only
\* the Identity Manager's Create.
\* CreateClaim looks the revocation source up in the Claim Store before Save.
C20_AsStated ==
    \A p \in Procs :
        /\ Serving(p, "CreateClaim") => ClaimStoreCalls(p) \in {<<>>, <<"Save">>}
        /\ Serving(p, "RevokeClaim") => CallNames(p) \in {<<>>, <<"Revoke">>}
        /\ Serving(p, "CreateIdentity") => CallNames(p) \in {<<>>, <<"Create">>}

\* The calls each operation makes: CreateClaim never Revoke nor Create, of the
\* Claim Store the descriptor lookup and then Save, Save last and once;
\* RevokeClaim only Revoke; CreateIdentity only Create.
OwnCallsOnly(p) ==
    /\ Serving(p, "CreateClaim") =>
           /\ CallsOf(p, "Revoke") = {} /\ CallsOf(p, "Create") = {}
           /\ ClaimStoreCalls(p) \in
                  {<<>>, <<"GetRevocationSource">>, <<"GetRevocationSource", "Save">>}
           /\ \A i \in CallsOf(p, "Save") : i = Len(calls[p])
    /\ Serving(p, "RevokeClaim") => CallNames(p) \in {<<>>, <<"Revoke">>}
    /\ Serving(p, "CreateIdentity") => CallNames(p) \in {<<>>, <<"Create">>}

\* What a step of handler p does to the store: CreateClaim adds one record, at
\* Save, and changes none; RevokeClaim only sets the Revoked flag of the record
\* its request names; CreateIdentity nothing.
OwnMutationOnly(p) ==
    StepOf(p) =>
        /\ request'[p].op = "CreateClaim" =>
               \/ store' = store
               \/ /\ pc[p] = "Save"
                  /\ store \subseteq store'
                  /\ Cardinality(store') = Cardinality(store) + 1
        /\ request'[p].op = "RevokeClaim" =>
               /\ Cardinality(store') = Cardinality(store)
               /\ \A r \in store :
                      \/ r \in store'
                      \/ /\ r.Issuer = request'[p].Identifier
                         /\ r.RevNonce = request'[p].Nonce % (2 ^ NonceBits)
                         /\ [r EXCEPT !.Revoked = TRUE] \in store'
        /\ request'[p].op = "CreateIdentity" => store' = store

\* C20, amended: CreateClaim never invokes Revoke; of the Claim Store it calls
\* the revocation-source lookup, which changes nothing, and then Save, once
\* and last, its only mutation; RevokeClaim invokes only Revoke and changes
\* only the revocation flag of the named claim; CreateIdentity invokes only
\* the Identity Manager's Create; no operation modifies the Server's fields.
C20_FrameOfEachOperation ==
    /\ [](\A p \in Procs : OwnCallsOnly(p))
    /\ [][server' = server /\ \A p \in Procs : OwnMutationOnly(p)]_vars

\* A CreateClaim that returned its 201 after the lookup and the Save.
C20_Witness ==
    \E p \in Procs :
        /\ Returned(p, "CreateClaim")
        /\ ClaimStoreCalls(p) = <<"GetRevocationSource", "Save">>
        /\ StatusCode(response[p].resp) = 201

=============================================================================
